---------------------------- MODULE Spec2Model ----------------------------
(***************************************************************************)
(* A model of bmo's offset-calculation functions (python/bmo/utils.py:      *)
(* get_camera_focal, get_translation_offset, get_rotation_offset and its   *)
(* nested get_angle) and of the Manta camera wrapper (python/bmo/manta.py). *)
(*                                                                         *)
(* The code computes in IEEE binary floating point.  The model keeps the   *)
(* structure of that arithmetic and scales down its width: a float is a    *)
(* sign, a significand of MantBits bits and an unbounded binary exponent,  *)
(* and every primitive operation (+ - * / cos tan arccos) returns the      *)
(* exact result rounded to the nearest such float, ties to even.  There is *)
(* no overflow or underflow in the model (float64 has neither for values   *)
(* of the size of pixels, millimetres and arcseconds).                     *)
(***************************************************************************)
EXTENDS Integers, Sequences, FiniteSets, TLC

VARIABLES
  FOCAL_SCALE,        \* utils.FOCAL_SCALE, a module global
  PIXEL_SIZE,         \* utils.PIXEL_SIZE, a module global
  args,               \* the objects a caller passes to the utils functions
  ret,                \* the call of a utils function just made, and how it ended
  first,              \* the first call of a utils function made (history)
  open,               \* MantaCamera.open
  last_exposure,      \* MantaCamera._last_exposure
  frame_buffer,       \* the image in the buffer of the frame used to expose
  files,              \* the file system: what is stored under each path
  cam_ret,            \* the call of a MantaCamera or MantaExposure method just made
  vimba,              \* MantaCamera.vimba, a class attribute
  exposed             \* what the last completed expose() returned (history)

utils_vars == <<FOCAL_SCALE, PIXEL_SIZE, args, ret, first>>

camera_vars == <<open, last_exposure, frame_buffer, files, cam_ret, exposed, vimba>>

vars == <<utils_vars, camera_vars>>

(***************************************************************************)
(* Floating point numbers                                                  *)
(***************************************************************************)

\* Bits of the significand (float64 has 53).
MantBits == 8

\* Python numbers: k = "i" a Python int / int64 of value s*m (e = 0);
\* k = "f" a float of value s * m * 2^e, with m = 0 or
\* 2^(MantBits-1) <= m < 2^MantBits; k = "nan" the float NaN.
NaN == [k |-> "nan", s |-> 1, m |-> 0, e |-> 0]

IsNaN(a) == a.k = "nan"

Abs(n) == IF n < 0 THEN -n ELSE n

Sgn(n) == IF n < 0 THEN -1 ELSE 1

\* The float nearest to n/d * 2^e (n >= 0, d > 0), ties to even:
\* significand and exponent.
RECURSIVE RoundQ(_, _, _)
RoundQ(n, d, e) ==
  IF n = 0 THEN [m |-> 0, e |-> 0]
  ELSE IF n < d * 2^(MantBits - 1) THEN RoundQ(2 * n, d, e - 1)
  ELSE IF n >= d * 2^MantBits THEN RoundQ(n, 2 * d, e + 1)
  ELSE LET q  == n \div d
           r  == n % d
           up == (2 * r > d) \/ (2 * r = d /\ q % 2 = 1)
           q1 == IF up THEN q + 1 ELSE q
       IN  IF q1 = 2^MantBits THEN [m |-> 2^(MantBits - 1), e |-> e + 1]
           ELSE [m |-> q1, e |-> e]

\* The float nearest to the rational sgn * n/d * 2^e.
MkFloat(sgn, n, d, e) ==
  LET r == RoundQ(n, d, e)
  IN  [k |-> "f", s |-> IF r.m = 0 THEN 1 ELSE sgn, m |-> r.m, e |-> r.e]

\* A float literal: the float nearest to the decimal n/d.
Fl(n, d) == MkFloat(Sgn(n), Abs(n), d, 0)

\* A Python int.
PyInt(n) == [k |-> "i", s |-> Sgn(n), m |-> Abs(n), e |-> 0]

\* float(a): an int converted to the nearest float.
ToFloat(a) == IF a.k = "i" THEN MkFloat(a.s, a.m, 1, 0) ELSE a

FZero == [k |-> "f", s |-> 1, m |-> 0, e |-> 0]

IsZero(a) == a.k # "nan" /\ a.m = 0

FNeg(a) == IF IsNaN(a) \/ a.m = 0 THEN a ELSE [a EXCEPT !.s = -a.s]

\* a + b of two floats.
FAdd(a, b) ==
  IF IsNaN(a) \/ IsNaN(b) THEN NaN
  ELSE IF a.m = 0 THEN b
  ELSE IF b.m = 0 THEN a
  ELSE IF a.e - b.e >= MantBits + 2 THEN a
  ELSE IF b.e - a.e >= MantBits + 2 THEN b
  ELSE LET lo  == IF a.e < b.e THEN a.e ELSE b.e
           sum == a.s * a.m * 2^(a.e - lo) + b.s * b.m * 2^(b.e - lo)
       IN  MkFloat(Sgn(sum), Abs(sum), 1, lo)

FSub(a, b) == FAdd(a, FNeg(b))

FMul(a, b) ==
  IF IsNaN(a) \/ IsNaN(b) THEN NaN
  ELSE MkFloat(a.s * b.s, a.m * b.m, 1, a.e + b.e)

\* a / b; numpy gives nan or inf (with a warning) for a zero divisor.
FDiv(a, b) ==
  IF IsNaN(a) \/ IsNaN(b) \/ b.m = 0 THEN NaN
  ELSE MkFloat(a.s * b.s, a.m, b.m, a.e - b.e)

\* a < b and a <= b of two floats; any comparison with NaN is false.
FLess(a, b) ==
  LET d == FSub(a, b) IN ~IsNaN(d) /\ d.m # 0 /\ d.s = -1

FLeq(a, b) ==
  LET d == FSub(a, b) IN ~IsNaN(d) /\ (d.m = 0 \/ d.s = -1)

\* Arithmetic of two Python numbers: int with int stays int (no division
\* of ints occurs in the code), anything else is done in floats.
NSub(a, b) ==
  IF a.k = "i" /\ b.k = "i" THEN PyInt(a.s * a.m - b.s * b.m)
  ELSE FSub(ToFloat(a), ToFloat(b))

NMul(a, b) ==
  IF a.k = "i" /\ b.k = "i" THEN PyInt(a.s * a.m * b.s * b.m)
  ELSE FMul(ToFloat(a), ToFloat(b))

\* True division (from __future__ import division): always a float.
NDiv(a, b) == FDiv(ToFloat(a), ToFloat(b))


(***************************************************************************)
(* numpy's elementary functions.  Each is evaluated in fixed point, with   *)
(* FxBits fractional bits, and the result is rounded to a float.           *)
(***************************************************************************)

FxBits == 14

FxOne == 2^FxBits

\* Rounded integer division, n >= 0 and d > 0.
RDiv(n, d) == (2 * n + d) \div (2 * d)

\* np.pi, as the rational PiNum / PiDen.
PiNum == 355

PiDen == 113

PiFx == RDiv(PiNum * FxOne, PiDen)

PiHalfFx == RDiv(PiNum * FxOne, 2 * PiDen)

\* pi/2 with 20 fractional bits, for arguments next to pi/2.
PiHalfFx20 == RDiv(PiNum * 2^20, 2 * PiDen)

FPi == Fl(PiNum, PiDen)

\* |a| * 2^bits rounded to an integer.
ToFx(a, bits) ==
  IF a.e + bits >= 0 THEN a.m * 2^(a.e + bits)
  ELSE IF -(a.e + bits) > MantBits + 1 THEN 0
  ELSE RDiv(a.m, 2^(-(a.e + bits)))

\* cos x and sin x for 0 <= x <= pi/2 in fixed point (Taylor series in
\* Horner form).
CosFx(x) ==
  LET x2 == RDiv(x * x, FxOne)
      t5 == FxOne - RDiv(x2, 90)
      t4 == FxOne - RDiv(RDiv(x2 * t5, FxOne), 56)
      t3 == FxOne - RDiv(RDiv(x2 * t4, FxOne), 30)
      t2 == FxOne - RDiv(RDiv(x2 * t3, FxOne), 12)
  IN  FxOne - RDiv(RDiv(x2 * t2, FxOne), 2)

SinFx(x) ==
  LET x2 == RDiv(x * x, FxOne)
      t4 == FxOne - RDiv(x2, 72)
      t3 == FxOne - RDiv(RDiv(x2 * t4, FxOne), 42)
      t2 == FxOne - RDiv(RDiv(x2 * t3, FxOne), 20)
      t1 == FxOne - RDiv(RDiv(x2 * t2, FxOne), 6)
  IN  RDiv(x * t1, FxOne)

\* cos x for 0 <= x <= pi, signed.
CosFull(x) == IF x <= PiHalfFx THEN CosFx(x) ELSE -CosFx(PiFx - x)

\* np.cos
Cos(a) ==
  IF IsNaN(a) THEN NaN
  ELSE LET c == CosFull(ToFx(a, FxBits))
       IN  MkFloat(Sgn(c), Abs(c), FxOne, 0)

\* The x in lo..hi whose cosine is nearest to v (cos decreases on 0..pi).
RECURSIVE ArcCosFx(_, _, _)
ArcCosFx(v, lo, hi) ==
  IF hi - lo <= 1
  THEN IF CosFull(lo) - v <= v - CosFull(hi) THEN lo ELSE hi
  ELSE LET mid == (lo + hi) \div 2
       IN  IF CosFull(mid) >= v THEN ArcCosFx(v, mid, hi)
           ELSE ArcCosFx(v, lo, mid)

\* np.arccos: nan outside [-1, 1], exactly 0 at 1.
ArcCos(a) ==
  IF IsNaN(a) THEN NaN
  ELSE LET v == a.s * ToFx(a, FxBits)
       IN  IF FLess(Fl(1, 1), a) \/ FLess(a, Fl(-1, 1)) THEN NaN
           ELSE IF v = FxOne THEN FZero
           ELSE MkFloat(1, ArcCosFx(v, 0, PiFx), FxOne, 0)

\* np.tan for |a| < pi/2: a series in a next to 0, the cotangent of
\* pi/2 - a next to pi/2 and sin/cos in between.
Tan(a) ==
  IF IsNaN(a) THEN NaN
  ELSE IF a.m = 0 THEN a
  ELSE LET x   == ToFx(a, FxBits)
           x20 == ToFx(a, 20)
           r20 == PiHalfFx20 - x20
       IN  IF x < FxOne \div 8
           THEN LET x2 == RDiv(x * x, FxOne)
                    f  == FxOne + RDiv(x2, 3) + RDiv(2 * x2 * x2, 15 * FxOne)
                IN  MkFloat(a.s, a.m * f, FxOne, a.e)
           ELSE IF r20 < 2^17
           THEN LET r  == IF r20 < 1 THEN 1 ELSE r20
                    rx == RDiv(r, 2^(20 - FxBits))
                    r2 == RDiv(rx * rx, FxOne)
                    g  == FxOne - RDiv(r2, 3) - RDiv(r2 * r2, 45 * FxOne)
                IN  MkFloat(a.s, g * 2^(20 - FxBits), r, 0)
           ELSE MkFloat(a.s, SinFx(x), CosFx(x), 0)

\* np.deg2rad and np.rad2deg: multiplication by pi/180 and by 180/pi.
Deg2Rad(a) == FMul(a, Fl(PiNum, PiDen * 180))

Rad2Deg(a) == FMul(a, Fl(PiDen * 180, PiNum))


(***************************************************************************)
(* utils.py: module constants (read from the configuration at import)      *)
(***************************************************************************)

\* The configuration bmo loads (bmo.config): focal_scale in arcsec per mm,
\* pixel_scale in mm per pixel, image_shape in pixels.  The significand of
\* the model is short, so the plate scale is taken large enough for the
\* squares of the plate's angles to stay well above the rounding unit, as
\* they do in float64 at the telescope's scale.
config ==
  [telescope |-> [focal_scale |-> Fl(21600, 1)],
   cameras   |-> [pixel_scale |-> Fl(586, 10000),
                  image_shape |-> <<PyInt(128), PyInt(128)>>]]

DEFAULT_IMAGE_SHAPE == config.cameras.image_shape

(***************************************************************************)
(* get_rotation_offset.get_angle                                           *)
(***************************************************************************)

\* x_focal >= 0 for a Python number.
\* The value of F at the value of v: v is evaluated once and F is applied to
\* what it gave, as an assignment  x = v  followed by code that reads x.
Let(v, F(_)) == CHOOSE r \in {F(x) : x \in {v}} : TRUE

GeqZero(x) == x.k # "nan" /\ (x.m = 0 \/ x.s = 1)

get_angle(x_focal, y_focal) ==
  Let(Deg2Rad(NDiv(NMul(x_focal, FOCAL_SCALE), PyInt(3600))), LAMBDA x_focal_rad :
  Let(Deg2Rad(NDiv(NMul(y_focal, FOCAL_SCALE), PyInt(3600))), LAMBDA y_focal_rad :
  Let(ArcCos(FMul(Cos(x_focal_rad), Cos(y_focal_rad))), LAMBDA cc :
  Let(Rad2Deg(ArcCos(FMul(Tan(FSub(NDiv(FPi, Fl(2, 1)), cc)), Tan(y_focal_rad)))),
      LAMBDA theta :
    IF GeqZero(x_focal) THEN theta ELSE NSub(PyInt(360), theta)))))


(***************************************************************************)
(* Python and numpy objects                                                *)
(***************************************************************************)

\* A caller's argument: None, a tuple or an ndarray of Python numbers.
None == [py |-> "None", val |-> <<>>]

Tuple(v) == [py |-> "tuple", val |-> v]

NdArray(v) == [py |-> "ndarray", val |-> v]

\* The dtype numpy gives a sequence of numbers: int64 if all are ints.
DType(v) == IF \A i \in DOMAIN v : v[i].k = "i" THEN "int64" ELSE "float64"

AsType(v, dtype) ==
  IF dtype = "float64" THEN [i \in DOMAIN v |-> ToFloat(v[i])] ELSE v

\* np.asarray(obj): an ndarray is returned as it is, sharing the caller's
\* buffer; anything else is copied into a new array.
NpAsArray(obj) ==
  [ref |-> IF obj.py = "ndarray" THEN "caller" ELSE "local",
   dtype |-> DType(obj.val), val |-> AsType(obj.val, DType(obj.val))]

\* np.array(obj): a new array holding a copy of obj's elements.  ref says
\* whose buffer the array is: its own ("local") or the caller's object.
NpArray(obj) ==
  [ref |-> "local", dtype |-> DType(obj.val), val |-> AsType(obj.val, DType(obj.val))]

\* np.array(obj, dtype=np.float)
NpFloatArray(obj) ==
  [ref |-> "local", dtype |-> "float64", val |-> AsType(obj.val, "float64")]

\* bool(obj), as `if obj:` takes it: None and the empty tuple are false, an
\* ndarray of more than one element has no truth value (ValueError).
Truth(obj) ==
  IF obj.py = "None" THEN "false"
  ELSE IF obj.py = "tuple" THEN (IF Len(obj.val) > 0 THEN "true" ELSE "false")
  ELSE IF Len(obj.val) > 1 THEN "ValueError"
  ELSE IF Len(obj.val) = 1 /\ ~IsZero(obj.val[1]) THEN "true" ELSE "false"

\* arr -= other, in place: numpy refuses to cast the float64 result into an
\* int64 array (casting rule 'same_kind'), otherwise the buffer of arr is
\* overwritten with the elementwise difference.
ISub(arr, other) ==
  IF arr.dtype = "int64" /\ other.dtype = "float64"
  THEN [st |-> "raise", exc |-> "TypeError", arr |-> arr]
  ELSE [st |-> "ok", exc |-> "",
        arr |-> [arr EXCEPT !.val = [i \in DOMAIN arr.val |->
                                        NSub(arr.val[i], other.val[i])]]]

(***************************************************************************)
(* platedb: the plate holes of the database                                *)
(***************************************************************************)

Hole(label, x, y) == [label |-> label, xfocal |-> x, yfocal |-> y]

\* plate_id -> the holes of the plate (xfocal, yfocal in mm).  Plate 5 has
\* no off-axis acquisition hole and plate 6 has two.
platedb ==
  << <<Hole("ACQUISITION_CENTER", Fl(0, 1), Fl(0, 1)),
       Hole("ACQUISITION_OFFAXIS", Fl(3, 1), Fl(4, 1))>>,
     <<Hole("ACQUISITION_OFFAXIS", Fl(-3, 1), Fl(4, 1)),
       Hole("ACQUISITION_CENTER", Fl(0, 1), Fl(0, 1))>>,
     <<Hole("ACQUISITION_OFFAXIS", Fl(0, 1), Fl(4, 1))>>,
     <<Hole("ACQUISITION_OFFAXIS", Fl(3, 1), Fl(-4, 1))>>,
     <<Hole("ACQUISITION_CENTER", Fl(0, 1), Fl(0, 1))>>,
     <<Hole("ACQUISITION_OFFAXIS", Fl(3, 1), Fl(4, 1)),
       Hole("ACQUISITION_OFFAXIS", Fl(-2, 1), Fl(1, 1))>> >>

Plates == DOMAIN platedb

(***************************************************************************)
(* utils.py: the functions                                                 *)
(***************************************************************************)

Ok(v) == [st |-> "ok", exc |-> "", val |-> v]

Raise(exc) == [st |-> "raise", exc |-> exc, val |-> <<>>]

\* 'ACQUISITION_{0}'.format(camera.upper())
HoleType(camera) ==
  IF camera = "center" THEN "ACQUISITION_CENTER"
  ELSE IF camera = "offaxis" THEN "ACQUISITION_OFFAXIS"
  ELSE "ACQUISITION_?"

\* get_camera_focal taking the first record of the query whenever there is one.
get_camera_focal_first(plate_id, camera) ==
  LET holes == IF plate_id \in Plates THEN platedb[plate_id] ELSE <<>>
      query == SelectSeq(holes, LAMBDA h : h.label = HoleType(camera))
  IN  IF Len(query) = 0 THEN Raise("AssertionError")
      ELSE Ok(<<ToFloat(query[1].xfocal), ToFloat(query[1].yfocal)>>)

get_camera_focal(plate_id, camera) ==
  IF camera \notin {"center", "offaxis"} THEN Raise("AssertionError")
  ELSE LET hole_type == HoleType(camera)
           holes == IF plate_id \in Plates THEN platedb[plate_id] ELSE <<>>
           query == SelectSeq(holes, LAMBDA h : h.label = hole_type)
       IN  IF Len(query) # 1 THEN Raise("AssertionError")
           ELSE LET hole == query[1]
                IN  Ok(<<ToFloat(hole.xfocal), ToFloat(hole.yfocal)>>)

\* on_centre without the division of the shape by two.
on_centre_undivided(shape, img_centre) ==
  IF img_centre.py = "None"
  THEN <<ToFloat(shape.val[1]), ToFloat(shape.val[2])>>
  ELSE NpFloatArray(img_centre).val

\* The centre of the image (utils.py:196-199).
on_centre(shape, img_centre) ==
  IF img_centre.py = "None"
  THEN <<NDiv(shape.val[1], Fl(2, 1)), NDiv(shape.val[2], Fl(2, 1))>>
  ELSE NpFloatArray(img_centre).val

get_translation_offset(centroid, shape, img_centre) ==
  LET centre      == on_centre(shape, img_centre)
      on_centroid == NpArray(centroid)
      trans == [i \in 1..2 |->
                  FMul(FMul(NSub(on_centroid.val[i], centre[i]), PIXEL_SIZE),
                       FOCAL_SCALE)]
  IN  Ok(<<trans[1], trans[2]>>)

\* The conversion to pixels without the division by PIXEL_SIZE.
translation_offset_mm(translation_offset) ==
  LET t == NpArray(translation_offset)
  IN  [ref |-> "local", dtype |-> "float64",
       val |-> [i \in DOMAIN t.val |-> NDiv(t.val[i], FOCAL_SCALE)]]

\* np.array(translation_offset) / FOCAL_SCALE / PIXEL_SIZE
translation_offset_pix(translation_offset) ==
  LET t == NpArray(translation_offset)
  IN  [ref |-> "local", dtype |-> "float64",
       val |-> [i \in DOMAIN t.val |->
                  NDiv(NDiv(t.val[i], FOCAL_SCALE), PIXEL_SIZE)]]

\* A number not assigned yet.
Unset == [k |-> "unset", s |-> 1, m |-> 0, e |-> 0]

NoLocals ==
  [x_focal_centre |-> Unset, y_focal_centre |-> Unset, angle_centre |-> Unset,
   x_focal_off |-> Unset, y_focal_off |-> Unset, angle_off |-> Unset]

\* What a call of get_rotation_offset leaves: how it ended, the value it
\* returned, its local variables and the array its name centroid is bound to.
RotationExit(r, loc, centroid) ==
  [st |-> r.st, exc |-> r.exc, val |-> r.val, loc |-> loc, centroid |-> centroid]

\* utils.py:276-288, once the centroid to measure is known.
RotationOf(centroid, shape, img_centre_arg, loc) ==
  Let(IF img_centre_arg.py = "None"
      THEN [i \in 1..2 |-> NDiv(shape.val[i], Fl(2, 1))]
      ELSE NpFloatArray(img_centre_arg).val, LAMBDA img_centre :
  Let(NSub(centroid.val[1], img_centre[1]), LAMBDA x_pix :
  Let(NSub(centroid.val[2], img_centre[2]), LAMBDA y_pix :
  Let(NSub(loc.x_focal_centre, NMul(x_pix, PIXEL_SIZE)), LAMBDA x_focal_off :
  Let(NSub(loc.y_focal_centre, NMul(y_pix, PIXEL_SIZE)), LAMBDA y_focal_off :
  Let(get_angle(x_focal_off, y_focal_off), LAMBDA angle_off :
  Let(NMul(NSub(angle_off, loc.angle_centre), PyInt(3600)), LAMBDA rotation :
    RotationExit(Ok(<<rotation>>),
                 [loc EXCEPT !.x_focal_off = x_focal_off,
                             !.y_focal_off = y_focal_off,
                             !.angle_off = angle_off],
                 centroid))))))))

\* utils.py:270-272, then the rest.
CorrectAndRotate(centroid, shape, translation_offset, img_centre_arg, loc) ==
  Let(Truth(translation_offset), LAMBDA truth :
    IF truth = "ValueError"
    THEN RotationExit(Raise("ValueError"), loc, centroid)
    ELSE IF truth = "false"
    THEN RotationOf(centroid, shape, img_centre_arg, loc)
    ELSE Let(ISub(centroid, translation_offset_pix(translation_offset)), LAMBDA sub :
           IF sub.st = "raise"
           THEN RotationExit(Raise(sub.exc), loc, sub.arr)
           ELSE RotationOf(sub.arr, shape, img_centre_arg, loc)))

get_rotation_offset(plate_id, centroid_arg, shape_arg, translation_offset, img_centre_arg) ==
  Let(NpArray(centroid_arg), LAMBDA centroid :
  Let(NpArray(shape_arg), LAMBDA shape :
  Let(get_camera_focal(plate_id, "offaxis"), LAMBDA xy_focal :
    IF xy_focal.st = "raise"
    THEN RotationExit(xy_focal, NoLocals, centroid)
    ELSE IF Len(xy_focal.val) = 0
    THEN RotationExit(Raise("ValueError"), NoLocals, centroid)
    ELSE Let(get_angle(xy_focal.val[1], xy_focal.val[2]), LAMBDA angle_centre :
           CorrectAndRotate(centroid, shape, translation_offset, img_centre_arg,
                            [NoLocals EXCEPT !.x_focal_centre = xy_focal.val[1],
                                             !.y_focal_centre = xy_focal.val[2],
                                             !.angle_centre = angle_centre])))))


(***************************************************************************)
(* manta.py: exposures, the camera and the files it writes                 *)
(***************************************************************************)

\* The images a frame can hold once captured, and the buffer before that.
Images == {"img1", "img2"}

Blank == "blank"

\* The paths callers save to.
FileNames == {"a.fits", "b.fits"}

Absent == [py |-> "absent"]

\* np.round(t, 3) of a time of us microseconds, in milliseconds: the
\* scaled value is rounded to the nearest integer, halves to the even one.
Round3(us) ==
  LET q == us \div 1000
      r == us % 1000
  IN  IF 2 * r > 1000 \/ (2 * r = 1000 /\ q % 2 = 1) THEN q + 1 ELSE q

MantaExposure(data, exposure_time, camera_id) ==
  [py |-> "MantaExposure", data |-> data,
   exposure_time |-> Round3(exposure_time), camera_id |-> camera_id,
   header |-> [EXPTIME |-> Round3(exposure_time), DEVICE |-> camera_id]]

\* fits.HDUList([fits.PrimaryHDU(data=self.data, header=self.header)])
HDUList(self) == [py |-> "fits", data |-> self.data, header |-> self.header]

\* os.path.exists(fn)
Exists(fs, fn) == fs[fn] # Absent

\* MantaExposure.save(fn, overwrite): how it ends and the file system after.
MantaExposure_save(self, fn, overwrite, fs) ==
  LET hdulist == HDUList(self)
  IN  IF overwrite = FALSE /\ Exists(fs, fn)
      THEN [st |-> "raise", exc |-> "AssertionError", fs |-> fs]
      ELSE [st |-> "ok", exc |-> "", fs |-> [fs EXCEPT ![fn] = hdulist]]

\* fits.open(fn): the HDU list stored under fn.
fits_open(fs, fn) == IF Exists(fs, fn) THEN Ok(fs[fn]) ELSE Raise("IOError")

\* The classes that have an attribute vimba: MantaCamera defines it,
\* MantaExposure (a subclass of object) does not.
HasVimba(cls) == cls = "MantaCamera"

\* MantaCamera.__new__(cls): object.__new__(cls), then cls.vimba is read and,
\* when it is None, started.  v is MantaCamera.vimba before the call.
MantaCamera_new(cls, v) ==
  IF ~HasVimba(cls)
  THEN [st |-> "raise", exc |-> "AttributeError", val |-> None, vimba |-> v]
  ELSE [st |-> "ok", exc |-> "", val |-> [py |-> cls],
        vimba |-> IF v = "None" THEN "started" ELSE v]

\* MantaExposure.from_fits(fn), a classmethod: cls is MantaExposure.
MantaExposure_from_fits(cls, fn, fs, v) ==
  Let(fits_open(fs, fn), LAMBDA hdulist :
    IF hdulist.st = "raise"
    THEN [st |-> "raise", exc |-> hdulist.exc, val |-> None, vimba |-> v]
    ELSE Let(MantaCamera_new(cls, v), LAMBDA new_object :
           IF new_object.st = "raise" THEN new_object
           ELSE [st |-> "ok", exc |-> "",
                 val |-> [py |-> new_object.val.py,
                          data |-> hdulist.val.data,
                          header |-> hdulist.val.header,
                          camera_id |-> hdulist.val.header.DEVICE,
                          exposure_time |-> hdulist.val.header.EXPTIME],
                 vimba |-> new_object.vimba]))

\* self._last_exposure or exposure
LastExposureOr(exposure, last) == IF last # None THEN last ELSE exposure

\* exposure or self._last_exposure
ExposureOr(exposure, last) == IF exposure # None THEN exposure ELSE last

\* MantaCamera.save(fn, exposure=None, **kwargs)
MantaCamera_save(fn, exposure, overwrite, fs) ==
  IF ~(exposure # None \/ last_exposure # None)
  THEN [st |-> "raise", exc |-> "AssertionError", fs |-> fs]
  ELSE MantaExposure_save(ExposureOr(exposure, last_exposure), fn, overwrite, fs)

\* set_default_config: the exposure time of the camera, in microseconds.
ExposureTimeAbs == 1000000

cameraIdString == "DEV_000F314D46D2"

\* The exposures a caller builds to save explicitly.
CallerExposures ==
  { MantaExposure("img2", t, "DEV_OTHER") : t \in {2500, 1000000} }

NoCamCall ==
  [op |-> "none", fn |-> "", exposure |-> None, overwrite |-> FALSE,
   st |-> "none", exc |-> "", val |-> None, before |-> [f \in FileNames |-> Absent]]

InitCamera ==
  /\ open = TRUE
  /\ last_exposure = None
  /\ frame_buffer = Blank
  /\ files = [f \in FileNames |-> Absent]
  /\ cam_ret = NoCamCall
  /\ exposed = None
  /\ vimba = "started"

\* MantaCamera.expose(): the camera captures an image into the frame, and
\* the exposure holds a copy of it.  A closed camera has revoked its frames
\* and queueFrameCapture fails.
expose ==
  /\ \E img \in Images :
       IF open
       THEN /\ frame_buffer' = img
            /\ last_exposure' = MantaExposure(img, ExposureTimeAbs, cameraIdString)
            /\ cam_ret' = [NoCamCall EXCEPT !.op = "expose", !.st = "ok",
                                            !.val = last_exposure',
                                            !.before = files]
            /\ exposed' = cam_ret'.val
       ELSE /\ cam_ret' = [NoCamCall EXCEPT !.op = "expose", !.st = "raise",
                                            !.exc = "VimbaException",
                                            !.before = files]
            /\ UNCHANGED <<frame_buffer, last_exposure, exposed>>
  /\ UNCHANGED <<open, files, vimba>>
  /\ UNCHANGED utils_vars

save ==
  /\ \E fn \in FileNames, exposure \in {None} \cup CallerExposures,
        overwrite \in BOOLEAN :
       LET r == MantaCamera_save(fn, exposure, overwrite, files)
       IN  /\ files' = r.fs
           /\ cam_ret' = [op |-> "save", fn |-> fn, exposure |-> exposure,
                          overwrite |-> overwrite, st |-> r.st, exc |-> r.exc,
                          val |-> None, before |-> files]
  /\ UNCHANGED <<open, last_exposure, frame_buffer, exposed, vimba>>
  /\ UNCHANGED utils_vars

close ==
  /\ open
  /\ open' = FALSE
  /\ cam_ret' = [NoCamCall EXCEPT !.op = "close", !.st = "ok", !.before = files]
  /\ UNCHANGED <<last_exposure, frame_buffer, files, exposed, vimba>>
  /\ UNCHANGED utils_vars

from_fits ==
  /\ \E fn \in FileNames :
       \E r \in {MantaExposure_from_fits("MantaExposure", fn, files, vimba)} :
         /\ cam_ret' = [NoCamCall EXCEPT !.op = "from_fits", !.fn = fn,
                                         !.st = r.st, !.exc = r.exc,
                                         !.val = r.val, !.before = files]
         /\ vimba' = r.vimba
  /\ UNCHANGED <<open, last_exposure, frame_buffer, files, exposed>>
  /\ UNCHANGED utils_vars

(***************************************************************************)
(* The callers of the utils functions                                      *)
(***************************************************************************)

NoCall ==
  [fn |-> "none",
   args |-> [plate_id |-> 0, centroid |-> None, shape |-> None,
             translation_offset |-> None, img_centre |-> None],
   st |-> "none", exc |-> "", val |-> <<>>, loc |-> NoLocals]

\* The arguments callers pass.
\* Plate 7 is not in the database.
PlateIds == {1, 2, 3, 5, 6, 7}

Centroids ==
  { Tuple(<<Fl(64, 1), Fl(64, 1)>>), Tuple(<<Fl(91, 1), Fl(64, 1)>>),
    Tuple(<<Fl(98, 1), Fl(80, 1)>>), Tuple(<<Fl(128, 1), Fl(64, 1)>>),
    Tuple(<<Fl(129, 2), Fl(64, 1)>>),
    Tuple(<<PyInt(64), PyInt(64)>>), Tuple(<<PyInt(96), PyInt(64)>>),
    NdArray(<<Fl(96, 1), Fl(64, 1)>>), NdArray(<<PyInt(96), PyInt(80)>>) }

Shapes ==
  { Tuple(DEFAULT_IMAGE_SHAPE), Tuple(<<PyInt(0), PyInt(128)>>),
    Tuple(<<PyInt(-128), PyInt(-128)>>) }

ImgCentres == { None, Tuple(<<PyInt(96), PyInt(64)>>) }

TranslationOffsets ==
  { None, Tuple(<<PyInt(0), PyInt(0)>>),
    Tuple(<<Fl(40500, 1), Fl(-20250, 1)>>),
    NdArray(<<Fl(40500, 1), Fl(-20250, 1)>>) }

\* The arguments of a session of calls with changing arguments.
SessionPlateIds == {1, 4}

SessionCentroids ==
  { Tuple(<<Fl(96, 1), Fl(64, 1)>>), Tuple(<<Fl(128, 1), Fl(64, 1)>>),
    NdArray(<<Fl(96, 1), Fl(64, 1)>>) }

SessionTranslationOffsets == { None, Tuple(<<Fl(40500, 1), Fl(-20250, 1)>>) }

InitModule ==
  /\ FOCAL_SCALE = config.telescope.focal_scale
  /\ PIXEL_SIZE = config.cameras.pixel_scale

ArgsOf(plates, centroids, shapes, translations, img_centres) ==
  [plate_id : plates, centroid : centroids, shape : shapes,
   translation_offset : translations, img_centre : img_centres]

InitUtils ==
  /\ InitModule
  /\ args \in ArgsOf(PlateIds, Centroids, Shapes, TranslationOffsets, ImgCentres)
  /\ ret = NoCall
  /\ first = NoCall
  /\ InitCamera

InitSession ==
  /\ InitModule
  /\ args \in ArgsOf(SessionPlateIds, SessionCentroids,
                     {Tuple(DEFAULT_IMAGE_SHAPE)}, {None}, {None})
  /\ ret = NoCall
  /\ first = NoCall
  /\ InitCamera

\* The caller builds new arguments for the next call.
SetArgs ==
  /\ args' \in ArgsOf(SessionPlateIds, SessionCentroids,
                      {Tuple(DEFAULT_IMAGE_SHAPE)}, SessionTranslationOffsets,
                      {None})
  /\ ret' = NoCall
  /\ UNCHANGED <<FOCAL_SCALE, PIXEL_SIZE, first>>
  /\ UNCHANGED camera_vars

\* The caller's object after a call that bound a local name to arr: an
\* array that shares the caller's buffer leaves its contents there.
AfterCall(obj, arr) ==
  IF arr.ref = "caller" THEN [obj EXCEPT !.val = arr.val] ELSE obj

CallTranslation ==
  \E r \in {get_translation_offset(args.centroid, args.shape, args.img_centre)} :
      /\ ret' = [fn |-> "get_translation_offset", args |-> args,
                 st |-> r.st, exc |-> r.exc, val |-> r.val, loc |-> NoLocals]
      /\ first' = IF first.fn = "none" THEN ret' ELSE first
      /\ UNCHANGED <<FOCAL_SCALE, PIXEL_SIZE, args>>
      /\ UNCHANGED camera_vars

CallRotation ==
  \E r \in {get_rotation_offset(args.plate_id, args.centroid, args.shape,
                                args.translation_offset, args.img_centre)} :
      /\ ret' = [fn |-> "get_rotation_offset", args |-> args,
                 st |-> r.st, exc |-> r.exc, val |-> r.val, loc |-> r.loc]
      /\ first' = IF first.fn = "none" THEN ret' ELSE first
      /\ args' = [args EXCEPT !.centroid = AfterCall(@, r.centroid)]
      /\ UNCHANGED <<FOCAL_SCALE, PIXEL_SIZE>>
      /\ UNCHANGED camera_vars

Next == CallTranslation \/ CallRotation

Spec == InitUtils /\ [][Next]_vars

NextSession == SetArgs \/ CallTranslation \/ CallRotation

SpecSession == InitSession /\ [][NextSession]_vars

NextCamera == expose \/ save \/ close \/ from_fits

\* No utils function is called while the camera is used.
InitIdle ==
  /\ InitModule
  /\ args \in ArgsOf({1}, {Tuple(<<Fl(64, 1), Fl(64, 1)>>)},
                     {Tuple(DEFAULT_IMAGE_SHAPE)}, {None}, {None})
  /\ ret = NoCall
  /\ first = NoCall
  /\ InitCamera

SpecCamera == InitIdle /\ [][NextCamera]_vars


(***************************************************************************)
(* Properties                                                              *)
(***************************************************************************)

\* The exact value of twice a number.
Twice(a) == IF IsZero(a) THEN ToFloat(a) ELSE [ToFloat(a) EXCEPT !.e = @ + 1]

\* Axis i of the centroid of call c is exactly at the image centre: at
\* img_centre[i] when it is given, at shape[i]/2 otherwise.
AtCentre(c, i) ==
  IF c.args.img_centre = None
  THEN Twice(c.args.centroid.val[i]) = ToFloat(c.args.shape.val[i])
  ELSE ToFloat(c.args.centroid.val[i]) = ToFloat(c.args.img_centre.val[i])

IsTranslation(c) == c.fn = "get_translation_offset"

IsRotation(c) == c.fn = "get_rotation_offset"

\* C1: get_translation_offset returns, on each axis, zero if and only if the
\* centroid equals the image centre on that axis (img_centre when given,
\* shape/2 otherwise); so it returns (0, 0) exactly when the centroid is the
\* image centre, and a non-zero component on every axis where it differs.
C1_ZeroIffAtCentre ==
  IsTranslation(ret) =>
    /\ ret.st = "ok"
    /\ \A i \in 1..2 : IsZero(ret.val[i]) <=> AtCentre(ret, i)

\* A call with img_centre given whose centroid is at the centre on the first
\* axis only: the first component is zero, the second is not.
C1_Witness ==
  /\ IsTranslation(ret)
  /\ ret.args.img_centre # None
  /\ AtCentre(ret, 1) /\ ~AtCentre(ret, 2)
  /\ IsZero(ret.val[1]) /\ ~IsZero(ret.val[2])

\* The shape of call c has a width or a height that is zero or negative.
NonPositiveShape(c) ==
  \E i \in 1..2 : IsZero(c.args.shape.val[i]) \/ c.args.shape.val[i].s = -1

\* C2: get_translation_offset fails with an InvalidShapeError, and returns no
\* offset, whenever img_centre is absent and shape has a width or a height
\* that is zero or negative.
C2_InvalidShapeRaises ==
  (IsTranslation(ret) /\ ret.args.img_centre = None /\ NonPositiveShape(ret)) =>
    (ret.st = "raise" /\ ret.exc = "InvalidShapeError" /\ ret.val = <<>>)

\* The off-axis acquisition holes the database has for the plate of call c.
OffaxisHoles(c) ==
  IF c.args.plate_id \in DOMAIN platedb
  THEN SelectSeq(platedb[c.args.plate_id],
                 LAMBDA h : h.label = "ACQUISITION_OFFAXIS")
  ELSE <<>>

\* C3: get_rotation_offset fails (the AssertionError of get_camera_focal is
\* the geometry-unavailable error) and returns no rotation whenever the
\* lookup for (plate_id, 'offaxis') matches zero records or several; it
\* returns a rotation only when exactly one record matches, and then from
\* the focal point of that record.
C3_GeometryUnavailable ==
  IsRotation(ret) =>
    /\ Len(OffaxisHoles(ret)) # 1 =>
         (ret.st = "raise" /\ ret.exc = "AssertionError" /\ ret.val = <<>>
          /\ ret.loc = NoLocals)
    /\ ret.st = "ok" =>
         /\ Len(OffaxisHoles(ret)) = 1
         /\ ret.loc.x_focal_centre = OffaxisHoles(ret)[1].xfocal
         /\ ret.loc.y_focal_centre = OffaxisHoles(ret)[1].yfocal

\* A failed call for a plate with two off-axis records.
C3_Witness ==
  /\ IsRotation(ret)
  /\ Len(OffaxisHoles(ret)) = 2
  /\ ret.st = "raise" /\ ret.exc = "AssertionError"

\* angle is what the claim lets get_angle return for the focal point (x, y):
\* nothing is required at the plate centre; elsewhere a number in [0, 180]
\* when x >= 0 and in [180, 360), 360 excluded, when x < 0.
AngleInRange(x, y, angle) ==
  (IsZero(x) /\ IsZero(y)) \/
    /\ ~IsNaN(angle)
    /\ IF GeqZero(x)
       THEN FLeq(FZero, angle) /\ FLeq(angle, Fl(180, 1))
       ELSE FLeq(Fl(180, 1), angle) /\ FLess(angle, Fl(360, 1))

\* C4: for every focal point other than the plate centre, the angle that
\* get_angle returns is in [0, 360): theta in [0, 180] when x_focal >= 0,
\* 360 - theta when x_focal < 0, and never 360.  It is stated of the two
\* angles a call of get_rotation_offset computes.
C4_AngleInRange ==
  IsRotation(ret) =>
    /\ ret.loc.angle_centre # Unset =>
         AngleInRange(ret.loc.x_focal_centre, ret.loc.y_focal_centre,
                      ret.loc.angle_centre)
    /\ ret.loc.angle_off # Unset =>
         AngleInRange(ret.loc.x_focal_off, ret.loc.y_focal_off,
                      ret.loc.angle_off)

\* The centre get_rotation_offset measures from (utils.py:276-279).
CentreOf(c, i) ==
  IF c.args.img_centre = None
  THEN NDiv(c.args.shape.val[i], Fl(2, 1))
  ELSE ToFloat(c.args.img_centre.val[i])

\* The centroid the rotation of call c is to be computed from: the corrected
\* one, centroid - translation_offset / FOCAL_SCALE / PIXEL_SIZE, when a
\* translation is supplied and the raw one when it is None.
CentroidToUse(c, i) ==
  IF c.args.translation_offset = None
  THEN c.args.centroid.val[i]
  ELSE NSub(c.args.centroid.val[i],
            NDiv(NDiv(c.args.translation_offset.val[i], FOCAL_SCALE), PIXEL_SIZE))

\* C5: whenever a translation_offset pair is supplied, (0, 0) included, for
\* every centroid, integer-valued or not, get_rotation_offset returns the
\* rotation computed from the corrected centroid; when translation_offset is
\* None it returns the one computed from the raw centroid.  (Stated for the
\* plates with one off-axis record; the offset focal point is the registered
\* one minus the pixel displacement of that centroid times PIXEL_SIZE.)
C5_CorrectedCentroidUsed ==
  (/\ IsRotation(ret)
   /\ Len(OffaxisHoles(ret)) = 1
   /\ ret.args.translation_offset.py \in {"None", "tuple"}) =>
    /\ ret.st = "ok"
    /\ ret.loc.x_focal_off =
         NSub(ret.loc.x_focal_centre,
              NMul(NSub(CentroidToUse(ret, 1), CentreOf(ret, 1)), PIXEL_SIZE))
    /\ ret.loc.y_focal_off =
         NSub(ret.loc.y_focal_centre,
              NMul(NSub(CentroidToUse(ret, 2), CentreOf(ret, 2)), PIXEL_SIZE))
    /\ ret.val = <<NMul(NSub(ret.loc.angle_off, ret.loc.angle_centre), PyInt(3600))>>

\* The absolute value of a float.
FAbs(a) == IF IsNaN(a) THEN a ELSE [a EXCEPT !.s = 1]

\* C6: the rotation is continuous across x_focal == 0: of two calls for the
\* same plate whose offset focal points have the same y_focal_off, positive
\* or negative, one with x_focal_off above 0 and the other below, the
\* rotations differ by less than half a turn (180*3600 arcsec), never by a
\* jump of about 360 degrees.
C6_ContinuousAcrossBoundary ==
  (/\ IsRotation(first) /\ first.st = "ok"
   /\ IsRotation(ret) /\ ret.st = "ok"
   /\ first.args.plate_id = ret.args.plate_id
   /\ first.loc.y_focal_off = ret.loc.y_focal_off
   /\ FLess(FZero, first.loc.x_focal_off)
   /\ FLess(ret.loc.x_focal_off, FZero)) =>
    FLess(FAbs(FSub(ret.val[1], first.val[1])), Fl(180 * 3600, 1))

\* C7: with translation_offset None and the centroid exactly at the image
\* centre (pixel displacement (0, 0)), get_rotation_offset returns exactly
\* 0 arcsec, for every plate whose registered off-axis focal point is not
\* the plate centre.
C7_ZeroAtReference ==
  (/\ IsRotation(ret)
   /\ ret.args.translation_offset = None
   /\ AtCentre(ret, 1) /\ AtCentre(ret, 2)
   /\ Len(OffaxisHoles(ret)) = 1
   /\ ~(IsZero(OffaxisHoles(ret)[1].xfocal) /\ IsZero(OffaxisHoles(ret)[1].yfocal))) =>
    (ret.st = "ok" /\ IsZero(ret.val[1]))

\* C8: both functions are stateless.  The module state FOCAL_SCALE and
\* PIXEL_SIZE is as configured after any sequence of calls; after a call
\* the caller's arguments (centroid, shape, translation_offset, img_centre)
\* are as they were passed; and a call returns what the same call returned
\* when it was the first call made.
C8_Stateless ==
  /\ FOCAL_SCALE = config.telescope.focal_scale
  /\ PIXEL_SIZE = config.cameras.pixel_scale
  /\ ret.fn # "none" => args = ret.args
  /\ (ret.fn = first.fn /\ ret.args = first.args) =>
       (ret.st = first.st /\ ret.exc = first.exc /\ ret.val = first.val)

\* A translation-corrected rotation of a centroid passed as an ndarray,
\* made after a different call was the first.
C8_Witness ==
  /\ IsRotation(ret) /\ ret.st = "ok"
  /\ ret.args.translation_offset # None
  /\ ret.args.centroid.py = "ndarray"
  /\ args = ret.args
  /\ first.fn # "none" /\ first.args # ret.args

\* a is b to within 8 units of relative rounding error (2^(3-MantBits) of
\* |b|), and zero when b is zero.
Close(a, b) ==
  /\ ~IsNaN(a) /\ ~IsNaN(b)
  /\ IF IsZero(b) THEN IsZero(a)
     ELSE /\ ~IsZero(a) /\ a.s = b.s
          /\ Abs(a.e - b.e) <= 1
          /\ LET lo == IF a.e < b.e THEN a.e ELSE b.e
                 A  == a.m * 2^(a.e - lo)
                 B  == b.m * 2^(b.e - lo)
             IN  Abs(A - B) * 2^(MantBits - 3) <= B

\* The displacement of the centroid of call c from the image centre, as
\* get_translation_offset takes it.
Displacement(c, i) == NSub(c.args.centroid.val[i], CentreOf(c, i))

\* The translation c returned, converted back to pixels as
\* get_rotation_offset does.
BackToPixels(c, i) == translation_offset_pix(Tuple(c.val)).val[i]

\* The forward formula of get_translation_offset applied to a displacement.
Forward(d) == FMul(FMul(ToFloat(d), PIXEL_SIZE), FOCAL_SCALE)

\* C9 as stated: converting a translation returned by get_translation_offset
\* back to pixels yields the original displacement centroid - image_centre,
\* and the forward formula applied to that reproduces the translation.
C9_RoundTripExact ==
  IsTranslation(ret) =>
    \A i \in 1..2 :
      /\ BackToPixels(ret, i) = Displacement(ret, i)
      /\ Forward(BackToPixels(ret, i)) = ret.val[i]

\* C9: the round trip holds to within floating-point tolerance: the
\* translation converted back to pixels is the original displacement, and
\* the forward formula applied to it is the translation, each to within 8
\* units of relative rounding error, and exactly when the displacement is 0.
C9_RoundTripClose ==
  IsTranslation(ret) =>
    \A i \in 1..2 :
      /\ Close(BackToPixels(ret, i), Displacement(ret, i))
      /\ Close(Forward(BackToPixels(ret, i)), ret.val[i])

\* A translation whose conversion back to pixels is not the displacement
\* it came from, but within the tolerance of it.
C9_Witness ==
  /\ IsTranslation(ret)
  /\ BackToPixels(ret, 1) # Displacement(ret, 1)
  /\ Close(BackToPixels(ret, 1), Displacement(ret, 1))

\* save changed no file other than fn.
OnlyWrote(fn) == \A f \in FileNames \ {fn} : files[f] = cam_ret.before[f]

\* The call of save just made wrote exposure e to its fn.
Wrote(e) ==
  /\ cam_ret.st = "ok"
  /\ files[cam_ret.fn] = [py |-> "fits", data |-> e.data, header |-> e.header]
  /\ OnlyWrote(cam_ret.fn)

\* The call of save just made failed with an assertion error and wrote nothing.
Refused ==
  cam_ret.st = "raise" /\ cam_ret.exc = "AssertionError" /\ files = cam_ret.before

\* C10 as stated: save(fn) without an explicit exposure writes the exposure
\* the most recent completed expose() returned, and fails with an assertion
\* error, writing nothing, when no expose() has completed; save(fn,
\* exposure=e) writes e regardless of the last exposure.
C10_SaveWrites ==
  cam_ret.op = "save" =>
    IF cam_ret.exposure # None THEN Wrote(cam_ret.exposure)
    ELSE IF exposed # None THEN Wrote(exposed)
    ELSE Refused

\* The call of save just made was allowed to write: fn did not exist, or
\* overwrite=True was passed.
MayWrite == cam_ret.overwrite \/ cam_ret.before[cam_ret.fn] = Absent

\* C10: as C10_SaveWrites whenever fn does not exist or overwrite=True is
\* passed; when fn exists and overwrite is False (the default), save fails
\* with an assertion error and writes nothing, whatever the exposure.
C10_SaveWritesUnlessExists ==
  cam_ret.op = "save" =>
    IF cam_ret.exposure = None /\ exposed = None THEN Refused
    ELSE IF ~MayWrite THEN Refused
    ELSE IF cam_ret.exposure # None THEN Wrote(cam_ret.exposure)
    ELSE Wrote(exposed)

\* save(fn, exposure=e) with overwrite=True replaced a file by e while the
\* camera held a last exposure.
C10_Witness ==
  /\ cam_ret.op = "save" /\ cam_ret.st = "ok"
  /\ cam_ret.exposure # None /\ exposed # None
  /\ cam_ret.before[cam_ret.fn] # Absent
  /\ files[cam_ret.fn] # cam_ret.before[cam_ret.fn]
  /\ Wrote(cam_ret.exposure)

\* C11: FITS round trip of an exposure: for every MantaExposure e written
\* to fn with e.save(fn), MantaExposure.from_fits(fn) completes and returns
\* a MantaExposure whose data, camera_id and exposure_time are those of e
\* (the stored HDU holds e.data, and e.camera_id and e.exposure_time as the
\* DEVICE and EXPTIME of its header).
C11_FitsRoundTrip ==
  (cam_ret.op = "from_fits" /\ files[cam_ret.fn] # Absent) =>
    /\ cam_ret.st = "ok"
    /\ cam_ret.val.py = "MantaExposure"
    /\ cam_ret.val.data = files[cam_ret.fn].data
    /\ cam_ret.val.camera_id = files[cam_ret.fn].header.DEVICE
    /\ cam_ret.val.exposure_time = files[cam_ret.fn].header.EXPTIME

=============================================================================
